---- MODULE Spec2Model ----
(***************************************************************************)
(* A model of research_server.py: the three tools search_papers,           *)
(* extract_info and extract_text_paper, and the part of the file system    *)
(* they read and write (the papers/ tree with one papers_info.json per     *)
(* topic directory, and the .txt files written next to the documents).     *)
(* Strings the code computes with (topics, paths, page texts) are          *)
(* sequences of one-character strings, so that lower(), replace(),         *)
(* os.path.join and os.path.splitext are computed, not assumed.            *)
(***************************************************************************)
EXTENDS Integers, Sequences, FiniteSets, TLC

VARIABLES dirs, files, txt, op, ret, completed

vars == <<dirs, files, txt, op, ret, completed>>

(***************************************************************************)
(* Bounds of the model.                                                    *)
(***************************************************************************)
\* the largest max_results a caller passes: no result list is longer
MaxHits == 2
\* the largest number of pages of a document
MaxPages == 2

(***************************************************************************)
(* Strings.                                                                *)
(***************************************************************************)
SEP == "/"

\* str.lower() on one character
LowerChar(c) ==
    IF c = "I" THEN "i" ELSE IF c = "O" THEN "o" ELSE c

\* topic.lower().replace(" ", "_")
Normalize(topic) ==
    [i \in 1..Len(topic) |->
        IF LowerChar(topic[i]) = " " THEN "_" ELSE LowerChar(topic[i])]

PAPER_DIR == <<"p", "a", "p", "e", "r", "s">>

PAPERS_INFO == <<"p", "a", "p", "e", "r", "s", "_", "i", "n", "f", "o",
                 ".", "j", "s", "o", "n">>

\* os.path.join(a, b) on POSIX: an absolute b discards a; otherwise the two
\* are joined by one separator unless a already ends with one (or is empty)
PathJoin(a, b) ==
    IF Len(b) > 0 /\ b[1] = SEP THEN b
    ELSE IF Len(a) = 0 \/ a[Len(a)] = SEP THEN a \o b
    ELSE a \o <<SEP>> \o b

\* How the file system resolves a relative path string: the sequence of its
\* non-empty components ("papers/i/" and "papers/i" name the same directory).
RECURSIVE Components(_)
Components(s) ==
    IF Len(s) = 0 THEN <<>>
    ELSE IF s[1] = SEP THEN Components(Tail(s))
    ELSE LET n == CHOOSE k \in 1..Len(s) :
                      /\ \A j \in 1..k : s[j] # SEP
                      /\ (k = Len(s) \/ s[k + 1] = SEP)
         IN  <<SubSeq(s, 1, n)>> \o Components(SubSeq(s, n + 1, Len(s)))

\* the topic strings callers search for: "I O", "i_o", "I/O", "i", "i/"
Topics ==
    { <<"I", " ", "O">>, <<"i", "_", "o">>, <<"I", "/", "O">>,
      <<"i">>, <<"i", "/">> }

\* path: line 40;  file_path: line 43
TopicPath(topic) == PathJoin(PAPER_DIR, Normalize(topic))

TopicFilePath(topic) == PathJoin(TopicPath(topic), PAPERS_INFO)

\* the directory and the file these two strings name, for every topic
Dir == [topic \in Topics |-> Components(TopicPath(topic))]

File == [topic \in Topics |-> Components(TopicFilePath(topic))]

(***************************************************************************)
(* The data of the search collaborator and the records built from it.      *)
(***************************************************************************)
Ids == {"id1", "id2"}

\* paper.published: a date and a time of day
DateTimes == { [date |-> 20240101, time |-> 930] }

\* one result of arxiv: get_short_id(), title ("t1" or "t2", standing for
\* the fields that are copied as they are: title, authors, summary,
\* pdf_url), published
Hit(id, title) ==
    [id |-> id, title |-> title,
     published |-> CHOOSE d \in DateTimes : TRUE]

\* what the collaborator can deliver: the entry id1 is seen with two
\* versions of its metadata, the entry id2 with one
Hits == { Hit("id1", "t1"), Hit("id1", "t2"), Hit("id2", "t1") }

\* paper_info: lines 56-62; published is reduced to its date
paper_info(paper) ==
    [title |-> paper.title, published |-> paper.published.date]

\* the result lists of one query: at most MaxHits entries, no entry twice
HitSeqs ==
    { s \in UNION { [1..n -> Hits] : n \in 0..MaxHits } :
        \A i, j \in 1..Len(s) : i # j => s[i].id # s[j].id }

\* mutant: an id that is already stored keeps its old record
RECURSIVE ProcessPapersKeepFirst(_, _, _)
ProcessPapersKeepFirst(papers_info, papers, k) ==
    IF k = 0 THEN papers_info
    ELSE LET done  == ProcessPapersKeepFirst(papers_info, papers, k - 1)
             paper == papers[k]
         IN  [i \in DOMAIN done \cup {paper.id} |->
                 IF i \in DOMAIN done THEN done[i] ELSE paper_info(paper)]

\* the for loop of lines 54-63 over the first k results
RECURSIVE ProcessPapers(_, _, _)
ProcessPapers(papers_info, papers, k) ==
    IF k = 0 THEN papers_info
    ELSE LET done  == ProcessPapers(papers_info, papers, k - 1)
             paper == papers[k]
         IN  [i \in DOMAIN done \cup {paper.id} |->
                 IF i = paper.id THEN paper_info(paper) ELSE done[i]]

\* paper_ids: lines 53-55
paper_ids(papers) == [i \in 1..Len(papers) |-> papers[i].id]

(***************************************************************************)
(* The file system.  dirs is the set of directories and DOMAIN files the   *)
(* set of regular files, both named by their component sequences from the  *)
(* working directory.  A papers_info.json holds either a JSON object       *)
(* (kind "json") or the cut-off text an interrupted write leaves behind    *)
(* (kind "truncated"), which json.load rejects with JSONDecodeError.       *)
(***************************************************************************)
EmptyMap == [i \in {} |-> "none"]

Json(m) == [kind |-> "json", data |-> m]

Truncated == [kind |-> "truncated", data |-> EmptyMap]

\* os.makedirs(path, exist_ok=True): the directory and every missing parent
MakeDirs(ds, dir) ==
    ds \cup { SubSeq(dir, 1, n) : n \in 1..Len(dir) }

\* which way lines 46-50 go: "absent" (FileNotFoundError), "truncated"
\* (JSONDecodeError) or "json"
Found(fs, file) ==
    IF file \in DOMAIN fs THEN fs[file].kind ELSE "absent"

\* lines 46-50: the try/except around open and json.load
LoadPapersInfo(fs, file) ==
    IF file \notin DOMAIN fs THEN EmptyMap
    ELSE IF fs[file].kind = "truncated" THEN EmptyMap
    ELSE fs[file].data

\* mutant: the file is opened for appending, so what a cut-off write left
\* behind stays in front of the new text
SavePapersInfoAppend(fs, file, papers_info) ==
    [p \in DOMAIN fs \cup {file} |->
        IF p # file THEN fs[p]
        ELSE IF file \in DOMAIN fs /\ fs[file].kind = "truncated" THEN Truncated
        ELSE Json(papers_info)]

\* lines 66-67: open(file_path, "w") and json.dump
SavePapersInfo(fs, file, papers_info) ==
    [p \in DOMAIN fs \cup {file} |->
        IF p = file THEN Json(papers_info) ELSE fs[p]]

\* lines 66-67 cut short (the process is killed, the disk fills up) after
\* open(file_path, "w") has emptied the file and before json.dump is through
SavePapersInfoCut(fs, file) ==
    [p \in DOMAIN fs \cup {file} |->
        IF p = file THEN Truncated ELSE fs[p]]

NoOp == [name |-> "none"]

Returned(v) == [kind |-> "return", value |-> v]

\* the call returns None
ReturnedNone == [kind |-> "return_none"]

Raised(e) == [kind |-> "raise", value |-> e]

Init ==
    /\ dirs = {}
    /\ files = [p \in {} |-> Truncated]
    /\ txt = [p \in {} |-> <<>>]
    /\ op = NoOp
    /\ ret = [kind |-> "none"]
    /\ completed = {}

(***************************************************************************)
(* search_papers(topic, max_results): the collaborator delivers all of     *)
(* `papers` (at most max_results of them; the code only hands max_results  *)
(* on to the collaborator) and the call returns the list of their ids.     *)
(***************************************************************************)
search_papers(topic, papers) ==
    /\ dirs' = MakeDirs(dirs, Dir[topic])
    /\ files' = SavePapersInfo(files, File[topic],
                    ProcessPapers(LoadPapersInfo(files, File[topic]),
                                  papers, Len(papers)))
    /\ op' = [name |-> "search_papers", topic |-> topic, papers |-> papers,
              found |-> Found(files, File[topic])]
    /\ ret' = Returned(paper_ids(papers))
    /\ completed' = completed \cup {Dir[topic]}
    /\ UNCHANGED txt

\* mutant: the results delivered so far are saved before the exception leaves
FilesSavedOnFailure(fs, topic, papers) ==
    SavePapersInfo(fs, File[topic],
        ProcessPapers(LoadPapersInfo(fs, File[topic]), papers, Len(papers)))

\* What a search leaves in the files when the collaborator raises after it
\* has delivered `papers`: the exception leaves the function from line 54,
\* and nothing before line 66 writes a file.
FilesAfterFailure(fs, topic, papers) == fs

(***************************************************************************)
(* search_papers where the collaborator raises after it has delivered      *)
(* `papers`: client.results is a generator, so the requests are made       *)
(* inside the loop of line 54, after makedirs and the load.                *)
(***************************************************************************)
search_papers_upstream_failure(topic, papers) ==
    /\ dirs' = MakeDirs(dirs, Dir[topic])
    /\ files' = FilesAfterFailure(files, topic, papers)
    /\ op' = [name |-> "search_papers", topic |-> topic, papers |-> papers]
    /\ ret' = Raised("UpstreamFailure")
    /\ UNCHANGED <<txt, completed>>

(***************************************************************************)
(* search_papers where the write of lines 66-67 is cut short.  The save is *)
(* not atomic: the file is emptied first, so what stays behind is a        *)
(* papers_info.json that json.load rejects.                                *)
(***************************************************************************)
search_papers_save_interrupted(topic) ==
    /\ dirs' = MakeDirs(dirs, Dir[topic])
    /\ files' = SavePapersInfoCut(files, File[topic])
    /\ op' = [name |-> "search_papers", topic |-> topic]
    /\ ret' = Raised("OSError")
    /\ UNCHANGED <<txt, completed>>

(***************************************************************************)
(* extract_info(paper_id).                                                 *)
(***************************************************************************)
\* json.dumps(value, indent=2): the text, named by the value it encodes
JsonDumps(v) == [json |-> v]

\* line 99
NotFoundMessage(paper_id) ==
    [message |-> "There's no saved information related to paper",
     paper_id |-> paper_id]

\* os.listdir(d): the names of the entries of directory d
ListDir(d) ==
    { p[Len(p)] : p \in { q \in dirs \cup DOMAIN files :
                             Len(q) = Len(d) + 1 /\ SubSeq(q, 1, Len(d)) = d } }

\* the orders in which os.listdir may deliver the names of S
Orders(S) ==
    { o \in [1..Cardinality(S) -> S] :
        \A i, j \in 1..Cardinality(S) : i # j => o[i] # o[j] }

\* mutant: the first papers_info.json that json.load rejects ends the scan
AbortScan(items, paper_id) == Returned(NotFoundMessage(paper_id))

\* What the scan does with a papers_info.json that json.load rejects:
\* lines 95-97 print and go on with the remaining items.
RECURSIVE ScanItems(_, _)
AfterDecodeError(items, paper_id) == ScanItems(Tail(items), paper_id)

\* the loop of lines 85-97 over the items still to visit, then line 99
ScanItems(items, paper_id) ==
    IF items = <<>> THEN Returned(NotFoundMessage(paper_id))
    ELSE LET item_path == Components(PathJoin(PAPER_DIR, Head(items)))
             file_path == Components(PathJoin(PathJoin(PAPER_DIR, Head(items)),
                                              PAPERS_INFO))
         IN  IF item_path \notin dirs \/ file_path \notin DOMAIN files
                 THEN ScanItems(Tail(items), paper_id)
             ELSE IF files[file_path].kind = "truncated"
                 THEN AfterDecodeError(items, paper_id)
             ELSE IF paper_id \in DOMAIN files[file_path].data
                 THEN Returned(JsonDumps(files[file_path].data[paper_id]))
             ELSE ScanItems(Tail(items), paper_id)

\* `order` is the order in which os.listdir(PAPER_DIR) delivers the entries;
\* os.listdir raises FileNotFoundError while papers/ does not exist
extract_info(paper_id, order) ==
    /\ IF Components(PAPER_DIR) \in dirs
          THEN /\ order \in Orders(ListDir(Components(PAPER_DIR)))
               /\ ret' = ScanItems(order, paper_id)
          ELSE /\ order = <<>>
               /\ ret' = Raised("FileNotFoundError")
    /\ op' = [name |-> "extract_info", paper_id |-> paper_id, order |-> order]
    /\ UNCHANGED <<dirs, files, txt, completed>>

\* the names papers/ can get, in every order
ListOrders ==
    UNION { Orders(S) : S \in SUBSET { Dir[t][2] : t \in Topics } }

(***************************************************************************)
(* extract_text_paper(paper_path).                                         *)
(***************************************************************************)
\* the paths callers pass: "d.pdf" and "d"
DocPaths == { <<"d", ".", "p", "d", "f">>, <<"d">> }

\* what page.extract_text() gives for one page: a text (maybe empty), or
\* PdfReadError
PageTexts == { <<>>, <<"x">>, <<"y">> }

PageOutcomes ==
    [ok : {TRUE}, text : PageTexts] \cup [ok : {FALSE}, text : {<<>>}]

\* what is at paper_path: nothing, a file PdfReader rejects, or a document
Docs ==
    { [kind |-> "missing", pages |-> <<>>],
      [kind |-> "unreadable", pages |-> <<>>] }
    \cup [kind : {"pdf"},
          pages : UNION { [1..n -> PageOutcomes] : n \in 0..MaxPages }]

\* os.path.splitext(path)[0] for a path without separators: the part before
\* the last dot, unless only dots come before that dot
SplitExtRoot(path) ==
    LET dotsAt == { i \in 1..Len(path) :
                      /\ path[i] = "."
                      /\ \E j \in 1..(i - 1) : path[j] # "." }
    IN  IF dotsAt = {} THEN path
        ELSE SubSeq(path, 1, (CHOOSE i \in dotsAt : \A j \in dotsAt : j <= i) - 1)

\* line 141
output_path(paper_path) == SplitExtRoot(paper_path) \o <<".", "t", "x", "t">>

\* mutant: the test of line 137 is missing
PageContributionAlways(page_text) == page_text \o <<"\n", "\n">>

\* lines 137-138: what one page adds to total_text
PageContribution(page_text) ==
    IF page_text # <<>> THEN page_text \o <<"\n", "\n">> ELSE <<>>

\* total_text after the loop of lines 128-138 over the first k pages
RECURSIVE total_text(_, _)
total_text(pages, k) ==
    IF k = 0 THEN <<>>
    ELSE total_text(pages, k - 1) \o PageContribution(pages[k].text)

\* lines 144-145: open(output_path, 'w') and write
WriteText(t, out, text) ==
    [p \in DOMAIN t \cup {out} |->
        IF p = out THEN text ELSE t[p]]

\* mutant: the text is written page by page, so the pages read before the
\* failure are on disk
TxtPartialOnFailure(t, paper_path, pages, k) ==
    WriteText(t, output_path(paper_path), total_text(pages, k))

\* The text files after a call that fails after page k (k = 0: at the check of
\* line 114 or in PdfReader): the except clause is reached from inside the
\* with block, before line 144.
TxtAfterFailure(t, paper_path, pages, k) == t

\* the first page whose extract_text raises, or 0
FirstBadPage(pages) ==
    IF \A i \in 1..Len(pages) : pages[i].ok THEN 0
    ELSE CHOOSE i \in 1..Len(pages) :
             /\ ~pages[i].ok
             /\ \A j \in 1..(i - 1) : pages[j].ok

\* line 114 fails (k = 0), PdfReader raises (k = 0), or extract_text raises
\* on page k + 1; otherwise lines 141-148
extract_text_paper(paper_path, doc) ==
    /\ op' = [name |-> "extract_text_paper", paper_path |-> paper_path,
              doc |-> doc]
    /\ IF doc.kind # "pdf"
          THEN /\ ret' = ReturnedNone
               /\ txt' = TxtAfterFailure(txt, paper_path, doc.pages, 0)
       ELSE IF FirstBadPage(doc.pages) # 0
          THEN /\ ret' = ReturnedNone
               /\ txt' = TxtAfterFailure(txt, paper_path, doc.pages,
                                         FirstBadPage(doc.pages) - 1)
       ELSE /\ ret' = Returned(output_path(paper_path))
            /\ txt' = WriteText(txt, output_path(paper_path),
                                total_text(doc.pages, Len(doc.pages)))
    /\ UNCHANGED <<dirs, files, completed>>

(***************************************************************************)
(* Specifications.  Spec: the two tools of the paper store, every call     *)
(* running to its end.  SpecCrash: the same, and a save may be cut short.  *)
(* SpecExtract: extract_text_paper, which shares no state with the other   *)
(* two tools.                                                              *)
(***************************************************************************)
Next ==
    \/ \E topic \in Topics, papers \in HitSeqs :
           search_papers_upstream_failure(topic, papers)
    \/ \E topic \in Topics, papers \in HitSeqs :
           search_papers(topic, papers)
    \/ \E paper_id \in Ids, order \in ListOrders :
           extract_info(paper_id, order)

Spec == Init /\ [][Next]_vars

NextCrash ==
    \/ Next
    \/ \E topic \in Topics : search_papers_save_interrupted(topic)

SpecCrash == Init /\ [][NextCrash]_vars

NextExtract ==
    \E paper_path \in DocPaths, doc \in Docs :
        extract_text_paper(paper_path, doc)

SpecExtract == Init /\ [][NextExtract]_vars
(***************************************************************************)
(* What the claims speak about.                                            *)
(***************************************************************************)
\* the mapping a papers_info.json holds; none when it is absent or cut off
Stored(fs, file) ==
    IF file \in DOMAIN fs /\ fs[file].kind = "json" THEN fs[file].data
    ELSE EmptyMap

\* the ids of a result list
IdsOf(papers) == { papers[i].id : i \in 1..Len(papers) }

\* the records of one call's results, by id (a result list names no id twice)
RecordsOf(papers) ==
    [id \in IdsOf(papers) |->
        LET paper == CHOOSE h \in { papers[i] : i \in 1..Len(papers) } : h.id = id
        IN  [title |-> paper.title, published |-> paper.published.date]]

SearchReturned(o, r) == o.name = "search_papers" /\ r.kind = "return"

\* the directories right under papers/ and the papers_info.json in them
TopicDirs == { d \in dirs : Len(d) = 2 /\ d[1] = PAPER_DIR }

ScannedFiles ==
    { f \in DOMAIN files :
        Len(f) = 3 /\ f[1] = PAPER_DIR /\ f[3] = PAPERS_INFO }

\* a papers_info.json anywhere below papers/ holds paper_id
StoredSomewhere(paper_id) ==
    \E f \in DOMAIN files : paper_id \in DOMAIN Stored(files, f)

ReturnsRecordOf(paper_id) ==
    /\ ret.kind = "return"
    /\ \E f \in DOMAIN files :
           /\ paper_id \in DOMAIN Stored(files, f)
           /\ ret.value = [json |-> Stored(files, f)[paper_id]]

(***************************************************************************)
(* C1: a search_papers call that returns leaves every id of its results    *)
(* mapped to the record built from that result, leaves every other id of   *)
(* the topic's store with the record it had, and loses no id of the store. *)
(***************************************************************************)
C1_MergeStep ==
    /\ SearchReturned(op', ret') =>
           LET before == Stored(files, File[op'.topic])
               after  == Stored(files', File[op'.topic])
               new    == RecordsOf(op'.papers)
           IN  /\ \A id \in DOMAIN new :
                      id \in DOMAIN after /\ after[id] = new[id]
               /\ \A id \in DOMAIN before \ DOMAIN new :
                      id \in DOMAIN after /\ after[id] = before[id]
               /\ DOMAIN before \subseteq DOMAIN after
    \* nor does a search in which the collaborator raises take an id away
    /\ (op'.name = "search_papers" /\ ret' = Raised("UpstreamFailure")) =>
           \A topic \in Topics :
               DOMAIN Stored(files, File[topic])
                   \subseteq DOMAIN Stored(files', File[topic])

\* C1: every step of a returning search_papers call merges as C1_MergeStep
\* says, so the ids of a store never get fewer from search to search
C1_MergeKeepsAndOverwrites == [][C1_MergeStep]_vars

\* a search has returned id1 with a new title while id2 was already stored
C1_Witness ==
    /\ SearchReturned(op, ret)
    /\ IdsOf(op.papers) = {"id1"}
    /\ op.papers[1].title = "t2"
    /\ op.found = "json"
    /\ DOMAIN Stored(files, File[op.topic]) = {"id1", "id2"}
    /\ Stored(files, File[op.topic])["id1"].title = "t2"

(***************************************************************************)
(* C2: every id that a successful search has returned (without a cut-off   *)
(* save these are the ids some papers_info.json holds) is resolved by      *)
(* extract_info(id): the call returns a stored record of the id.           *)
(***************************************************************************)
C2_ReturnedIdsResolve ==
    (op.name = "extract_info" /\ StoredSomewhere(op.paper_id))
        => ReturnsRecordOf(op.paper_id)

(***************************************************************************)
(* C3: extract_info(id) for an id that no store holds returns the          *)
(* not-found message and never raises, in every state, the one before the  *)
(* first search included.                                                  *)
(***************************************************************************)
C3_UnknownIdNotFound ==
    (op.name = "extract_info" /\ ~StoredSomewhere(op.paper_id))
        => /\ ret.kind = "return"
           /\ ret.value = NotFoundMessage(op.paper_id)

(***************************************************************************)
(* C4: when the collaborator raises during search_papers, before the first *)
(* result or after some, the call raises and the topic's papers_info.json  *)
(* is what it was: absent if it was absent, else with the same content.    *)
(***************************************************************************)
C4_FailureStep ==
    (op'.name = "search_papers" /\ ret' = Raised("UpstreamFailure")) =>
        /\ (File[op'.topic] \in DOMAIN files') = (File[op'.topic] \in DOMAIN files)
        /\ File[op'.topic] \in DOMAIN files =>
               files'[File[op'.topic]] = files[File[op'.topic]]

\* C4: every step of a search_papers call in which the collaborator raises
\* leaves the topic's papers_info.json as C4_FailureStep says
C4_NoPartialSave == [][C4_FailureStep]_vars

\* the collaborator raised after a result that the store does not hold
C4_Witness ==
    /\ op.name = "search_papers"
    /\ ret = Raised("UpstreamFailure")
    /\ Len(op.papers) >= 1
    /\ File[op.topic] \in DOMAIN files
    /\ op.papers[1].id \notin DOMAIN Stored(files, File[op.topic])

(***************************************************************************)
(* C5: in every state every directory right under papers/ holds a          *)
(* papers_info.json, and a topic's directory exists only if a search for   *)
(* it has completed.                                                       *)
(***************************************************************************)
C5_LayoutHolds ==
    /\ \A d \in TopicDirs : d \o <<PAPERS_INFO>> \in DOMAIN files
    /\ \A topic \in Topics : Dir[topic] \in dirs => Dir[topic] \in completed

(***************************************************************************)
(* C6: a search_papers call that finds the topic's papers_info.json absent *)
(* or cut off returns, and the file then holds exactly the records of this *)
(* call's results.                                                         *)
(***************************************************************************)
C6_LoadStep ==
    (/\ SearchReturned(op', ret')
     /\ (File[op'.topic] \in DOMAIN files =>
             files[File[op'.topic]].kind = "truncated"))
        => /\ File[op'.topic] \in DOMAIN files'
           /\ files'[File[op'.topic]] = Json(RecordsOf(op'.papers))

RECURSIVE ExpectedText(_)
ExpectedText(pages) ==
    IF pages = <<>> THEN <<>>
    ELSE (IF Len(Head(pages).text) = 0 THEN <<>>
          ELSE Head(pages).text \o <<"\n", "\n">>)
         \o ExpectedText(Tail(pages))

Readable(doc) ==
    doc.kind = "pdf" /\ \A i \in 1..Len(doc.pages) : doc.pages[i].ok

C8_TextIsPagesInOrder ==
    (op.name = "extract_text_paper" /\ Readable(op.doc))
        => /\ ret.kind = "return"
           /\ ret.value \in DOMAIN txt
           /\ ret.value = SplitExtRoot(op.paper_path) \o <<".", "t", "x", "t">>
           /\ txt[ret.value] = ExpectedText(op.doc.pages)

\* two pages with different texts, and a document with an empty page
C8_Witness ==
    /\ op.name = "extract_text_paper"
    /\ Readable(op.doc)
    /\ Len(op.doc.pages) = 2
    /\ op.doc.pages[1].text = <<"y">>
    /\ op.doc.pages[2].text = <<"x">>
    /\ txt[ret.value] = <<"y", "\n", "\n", "x", "\n", "\n">>

(***************************************************************************)
(* C9: an extract_text_paper call that fails (no file at the path, a file  *)
(* PdfReader rejects, a page that cannot be read) returns None and writes  *)
(* nothing: no output file appears and an earlier one keeps its content.   *)
(***************************************************************************)
C9_FailureStep ==
    (op'.name = "extract_text_paper" /\ ~Readable(op'.doc))
        => ret'.kind = "return_none" /\ txt' = txt

\* C9: every step of a failing extract_text_paper call returns None and
\* leaves the text files as they were
C9_FailureWritesNothing == [][C9_FailureStep]_vars

\* the second page could not be read, the first had text, and the output of
\* an earlier extraction is there with another text
C9_Witness ==
    /\ op.name = "extract_text_paper"
    /\ op.doc.kind = "pdf"
    /\ Len(op.doc.pages) = 2
    /\ op.doc.pages[1].ok /\ op.doc.pages[1].text = <<"x">>
    /\ ~op.doc.pages[2].ok
    /\ ret.kind = "return_none"
    /\ output_path(op.paper_path) \in DOMAIN txt
    /\ txt[output_path(op.paper_path)] = <<"y", "\n", "\n">>

(***************************************************************************)
(* C10: a search_papers call for topic T changes no store but that of the  *)
(* label Normalize(T), the topics with that label have one store, and      *)
(* extract_info changes nothing on disk.                                   *)
(***************************************************************************)
StoreOf(fs, topic) ==
    IF File[topic] \in DOMAIN fs THEN fs[File[topic]] ELSE [kind |-> "absent"]

C10_FrameStep ==
    /\ op'.name = "search_papers" =>
           \A other \in Topics :
               /\ Normalize(other) # Normalize(op'.topic)
                      => StoreOf(files', other).kind = StoreOf(files, other).kind
                         /\ Stored(files', File[other]) = Stored(files, File[other])
               /\ Normalize(other) = Normalize(op'.topic)
                      => File[other] = File[op'.topic]
    /\ op'.name = "extract_info" => files' = files /\ dirs' = dirs

\* C10: every step of search_papers and extract_info changes the stores only
\* as C10_FrameStep says
C10_OnlyOwnLabelChanges == [][C10_FrameStep]_vars
====
